---- MODULE Spec2Model ----
(***************************************************************************)
(* The three optimisation passes of ucc/transpilers: IonQOptimizationPass  *)
(* (gate-set translation and rotation fusion), QHRFPass (layered           *)
(* redundancy filter) and SeqHTPass (per-qubit sequency truncation).       *)
(*                                                                         *)
(* A circuit is [num_qubits, num_clbits, data]; data is the sequence of    *)
(* CircuitInstructions [operation |-> [name, params], qubits, clbits].     *)
(* Angles are integers in units of pi/8 (Pi = 8); every angle and every    *)
(* truncation threshold of the model is a multiple of that unit, so the    *)
(* sums the passes form in floating point are exact here and the 1e-10     *)
(* cut of the fusion stage separates zero from non-zero sums.              *)
(* Contribution scores are exact fractions <<numerator, denominator>>.     *)
(***************************************************************************)
EXTENDS Integers, Sequences, FiniteSets

VARIABLES circuit, optimized_circuit, pass_run,
          truncation_threshold, max_order, redundancy_threshold,
          hierarchy, filtered_hierarchy

vars == <<circuit, optimized_circuit, pass_run,
          truncation_threshold, max_order, redundancy_threshold,
          hierarchy, filtered_hierarchy>>

\* What a pass is constructed with, and never changes.
config == <<truncation_threshold, max_order, redundancy_threshold>>

\* Longest circuit the host builds.
MaxOps == 4

\* np.pi, in angle units.
Pi == 8

Abs(v) == IF v < 0 THEN -v ELSE v

\* A gate object (instruction.name, instruction.params).
Gate(name, params) == [name |-> name, params |-> params]

\* One entry of circuit.data.
Instr(name, params, qubits, clbits) ==
    [operation |-> Gate(name, params), qubits |-> qubits, clbits |-> clbits]

\* QuantumCircuit(num_qubits, num_clbits) with the given data.
QuantumCircuit(nq, nc, data) ==
    [num_qubits |-> nq, num_clbits |-> nc, data |-> data]

\* circuit.find_bit(q).index for every qubit of an instruction.
QubitIndices(inst) == inst.qubits

(***************************************************************************)
(* SeqHTPass                                                               *)
(***************************************************************************)

\* The names _extract_single_qubit_operations recognises.
RecognizedNames == {"rx", "ry", "rz", "u3", "h", "x", "y", "z", "s", "t"}

\* An extraction test that does not look at the qubit.
IsExtractedAnyQubit(inst, qubit_idx) ==
    /\ Len(inst.qubits) = 1
    /\ Len(inst.clbits) = 0
    /\ inst.operation.name \in RecognizedNames

IsExtracted(inst, qubit_idx) ==
    /\ Len(inst.qubits) = 1
    /\ inst.qubits[1] = qubit_idx
    /\ Len(inst.clbits) = 0
    /\ inst.operation.name \in RecognizedNames

_extract_single_qubit_operations(circ, qubit_idx) ==
    LET keep(inst) == IsExtracted(inst, qubit_idx)
        sel == SelectSeq(circ.data, keep)
    IN [i \in 1..Len(sel) |->
            [gate |-> sel[i].operation, qubit |-> qubit_idx, index |-> i - 1]]

\* coeffs with the entry `axis` of the highest-order row increased by v.
AddCoeffTopOrder(coeffs, axis, v) ==
    LET top == CHOOSE o \in DOMAIN coeffs : \A p \in DOMAIN coeffs : p <= o
    IN [coeffs EXCEPT ![top][axis] = coeffs[top][axis] + v]

\* coeffs with dc row entry `axis` increased by v.
AddCoeff(coeffs, axis, v) ==
    [coeffs EXCEPT ![0][axis] = coeffs[0][axis] + v]

\* One iteration of the loop of _compute_sequency_coefficients.
CoeffStep(coeffs, gate) ==
    IF Len(gate.params) > 0
    THEN CASE gate.name = "rx" -> AddCoeff(coeffs, 0, gate.params[1])
           [] gate.name = "ry" -> AddCoeff(coeffs, 1, gate.params[1])
           [] gate.name = "rz" -> AddCoeff(coeffs, 2, gate.params[1])
           [] gate.name = "u3" /\ Len(gate.params) >= 3 ->
                AddCoeff(AddCoeff(AddCoeff(coeffs, 2, gate.params[2]),
                                  1, gate.params[1]),
                         2, gate.params[3])
           [] OTHER -> coeffs
    ELSE coeffs

RECURSIVE CoeffLoop(_, _, _)
CoeffLoop(operations, i, coeffs) ==
    IF i > Len(operations) THEN coeffs
    ELSE CoeffLoop(operations, i + 1, CoeffStep(coeffs, operations[i].gate))

_compute_sequency_coefficients(operations, mo) ==
    CoeffLoop(operations, 1, [o \in 0..mo |-> [a \in 0..2 |-> 0]])

_truncate_sequency_hierarchy(coeffs, thr) ==
    [o \in DOMAIN coeffs |->
        [a \in 0..2 |-> IF Abs(coeffs[o][a]) < thr THEN 0 ELSE coeffs[o][a]]]

\* One of the three `if abs(angle) > threshold: append` blocks.
Rebuilt(name, angle, thr) ==
    IF Abs(angle) > thr
    THEN <<[gate |-> Gate(name, <<angle>>), type |-> name]>>
    ELSE <<>>

_reconstruct_from_sequency(coeffs, num_operations, thr) ==
    LET rx_angle == coeffs[0][0]
        ry_angle == coeffs[0][1]
        rz_angle == coeffs[0][2]
    IN Rebuilt("rx", rx_angle, thr) \o Rebuilt("ry", ry_angle, thr)
          \o Rebuilt("rz", rz_angle, thr)

_optimize_single_qubit_sequence(operations, thr, mo) ==
    IF Len(operations) < 2 THEN operations
    ELSE LET sequency_coeffs == _compute_sequency_coefficients(operations, mo)
             significant_coeffs ==
                 _truncate_sequency_hierarchy(sequency_coeffs, thr)
         IN _reconstruct_from_sequency(significant_coeffs, Len(operations), thr)

\* A loop that drops the originals left when the replacements ran out.
RECURSIVE ReplaceLoopDropping(_, _, _, _, _, _)
ReplaceLoopDropping(data, k, op_idx, qubit_idx, original_ops, optimized_ops) ==
    IF k > Len(data) THEN <<>>
    ELSE LET inst == data[k]
             should_replace ==
                 /\ Len(original_ops) > 0
                 /\ op_idx < Len(original_ops)
                 /\ Len(inst.qubits) = 1
                 /\ inst.qubits[1] = qubit_idx
                 /\ inst.operation.name = original_ops[op_idx + 1].gate.name
         IN (IF ~should_replace THEN <<inst>>
             ELSE IF op_idx < Len(optimized_ops)
                  THEN <<[operation |-> optimized_ops[op_idx + 1].gate,
                          qubits |-> <<qubit_idx>>, clbits |-> <<>>]>>
                  ELSE <<>>)
            \o ReplaceLoopDropping(data, k + 1,
                   IF should_replace THEN op_idx + 1 ELSE op_idx,
                   qubit_idx, original_ops, optimized_ops)

\* The loop of _replace_operations from data[k] on, op_idx originals consumed.
RECURSIVE ReplaceLoop(_, _, _, _, _, _)
ReplaceLoop(data, k, op_idx, qubit_idx, original_ops, optimized_ops) ==
    IF k > Len(data) THEN <<>>
    ELSE LET inst == data[k]
             should_replace ==
                 /\ Len(original_ops) > 0
                 /\ op_idx < Len(original_ops)
                 /\ Len(inst.qubits) = 1
                 /\ inst.qubits[1] = qubit_idx
                 /\ inst.operation.name = original_ops[op_idx + 1].gate.name
         IN IF should_replace /\ op_idx < Len(optimized_ops)
            THEN <<[operation |-> optimized_ops[op_idx + 1].gate,
                    qubits |-> <<qubit_idx>>, clbits |-> <<>>]>>
                 \o ReplaceLoop(data, k + 1, op_idx + 1, qubit_idx,
                                original_ops, optimized_ops)
            ELSE <<inst>>
                 \o ReplaceLoop(data, k + 1,
                                IF should_replace THEN op_idx + 1 ELSE op_idx,
                                qubit_idx, original_ops, optimized_ops)

_replace_operations(circ, qubit_idx, original_ops, optimized_ops) ==
    QuantumCircuit(circ.num_qubits, circ.num_clbits,
                   ReplaceLoop(circ.data, 1, 0, qubit_idx,
                               original_ops, optimized_ops))

\* The loop over qubit_idx of _apply_seqht_optimization.
RECURSIVE SeqHTLoop(_, _, _, _, _)
SeqHTLoop(circ, optimized, qubit_idx, thr, mo) ==
    IF qubit_idx >= circ.num_qubits THEN optimized
    ELSE LET single_qubit_ops ==
                 _extract_single_qubit_operations(circ, qubit_idx)
         IN SeqHTLoop(circ,
                IF Len(single_qubit_ops) > 1
                THEN _replace_operations(optimized, qubit_idx, single_qubit_ops,
                        _optimize_single_qubit_sequence(single_qubit_ops,
                                                        thr, mo))
                ELSE optimized,
                qubit_idx + 1, thr, mo)

_apply_seqht_optimization(circ, thr, mo) == SeqHTLoop(circ, circ, 0, thr, mo)

(***************************************************************************)
(* QHRFPass                                                                *)
(***************************************************************************)

Range(seq) == {seq[i] : i \in 1..Len(seq)}

\* A loop that opens a new layer for every operation.
RECURSIVE BuildLoopOnePerLayer(_, _, _, _, _)
BuildLoopOnePerLayer(data, k, layers, current_layer, active_qubits) ==
    IF k > Len(data) THEN layers
    ELSE BuildLoopOnePerLayer(data, k + 1,
             Append(layers, <<[gate |-> data[k].operation,
                               qubits |-> QubitIndices(data[k]),
                               index |-> Len(layers) * 100]>>),
             <<>>, {})

\* A loop whose conflict test looks at the first qubit of the operation only.
RECURSIVE BuildLoopFirstQubit(_, _, _, _, _)
BuildLoopFirstQubit(data, k, layers, current_layer, active_qubits) ==
    IF k > Len(data)
    THEN IF current_layer # <<>> THEN Append(layers, current_layer) ELSE layers
    ELSE LET inst == data[k]
             qubit_indices == QubitIndices(inst)
             conflict == /\ Len(qubit_indices) > 0
                         /\ qubit_indices[1] \in active_qubits
             layers1 == IF conflict /\ current_layer # <<>>
                        THEN Append(layers, current_layer) ELSE layers
             layer1 == IF conflict THEN <<>> ELSE current_layer
             active1 == IF conflict THEN {} ELSE active_qubits
             entry == [gate |-> inst.operation, qubits |-> qubit_indices,
                       index |-> Len(layers1) * 100 + Len(layer1)]
         IN BuildLoopFirstQubit(data, k + 1, layers1, Append(layer1, entry),
                                active1 \cup Range(qubit_indices))

\* The loop of _build_hierarchy from data[k] on.
RECURSIVE BuildLoop(_, _, _, _, _)
BuildLoop(data, k, layers, current_layer, active_qubits) ==
    IF k > Len(data)
    THEN IF current_layer # <<>> THEN Append(layers, current_layer) ELSE layers
    ELSE LET inst == data[k]
             qubit_indices == QubitIndices(inst)
             conflict == \E i \in 1..Len(qubit_indices) :
                             qubit_indices[i] \in active_qubits
             layers1 == IF conflict /\ current_layer # <<>>
                        THEN Append(layers, current_layer) ELSE layers
             layer1 == IF conflict THEN <<>> ELSE current_layer
             active1 == IF conflict THEN {} ELSE active_qubits
             entry == [gate |-> inst.operation, qubits |-> qubit_indices,
                       index |-> Len(layers1) * 100 + Len(layer1)]
         IN BuildLoop(data, k + 1, layers1, Append(layer1, entry),
                      active1 \cup Range(qubit_indices))

\* A builder that never appends the final layer.
HierarchyWithoutFinalLayer(circ) ==
    LET layers == BuildLoop(circ.data, 1, <<>>, <<>>, {})
    IN [qubits |-> circ.num_qubits,
        layers |-> SubSeq(layers, 1, Len(layers) - 1)]

_build_hierarchy(circ) ==
    [qubits |-> circ.num_qubits, layers |-> BuildLoop(circ.data, 1, <<>>, <<>>, {})]

\* Fractions <<n, d>> with d > 0.
FracLess(a, b) == a[1] * b[2] < b[1] * a[2]

\* Not smaller, in place of greater.
FracAtLeast(a, b) == ~FracLess(a, b)

FracGreater(a, b) == FracLess(b, a)

\* min(angle / np.pi, 1.0)
AngleScore(angle) == IF angle >= Pi THEN <<1, 1>> ELSE <<angle, Pi>>

\* A score with no division by the number of similar operations.
ContributionWithoutPenalty(operation, layer) ==
    LET gate == operation.gate
    IN IF gate.name \in {"h", "x", "y", "z"} THEN <<1, 1>>
       ELSE IF gate.name \in {"rx", "ry", "rz"}
            THEN IF Len(gate.params) > 0
                 THEN AngleScore(Abs(gate.params[1]))
                 ELSE <<1, 2>>
       ELSE IF gate.name \in {"cx", "cz", "swap"} THEN <<3, 2>>
       ELSE <<4, 5>>

_calculate_operation_contribution(operation, layer) ==
    LET gate == operation.gate
        qubits == operation.qubits
        base_contribution ==
            IF gate.name \in {"h", "x", "y", "z"} THEN <<1, 1>>
            ELSE IF gate.name \in {"rx", "ry", "rz"}
                 THEN IF Len(gate.params) > 0
                      THEN AngleScore(Abs(gate.params[1]))
                      ELSE <<1, 2>>
            ELSE IF gate.name \in {"cx", "cz", "swap"} THEN <<3, 2>>
            ELSE <<4, 5>>
        similar_ops == Cardinality({i \in 1..Len(layer) :
                            /\ layer[i] # operation
                            /\ Range(layer[i].qubits) = Range(qubits)
                            /\ layer[i].gate.name = gate.name})
    IN IF similar_ops > 0
       THEN <<base_contribution[1], base_contribution[2] * (similar_ops + 1)>>
       ELSE base_contribution

\* `seq` without the entries at the positions in `drop`.
RECURSIVE DeleteAt(_, _, _)
DeleteAt(seq, drop, i) ==
    IF i > Len(seq) THEN <<>>
    ELSE (IF i \in drop THEN <<>> ELSE <<seq[i]>>) \o DeleteAt(seq, drop, i + 1)

SetMin(S) == CHOOSE m \in S : \A n \in S : m <= n

\* The merge loop of _breaks_connectivity from qubit_groups[k] on.
RECURSIVE MergeLoop(_, _, _)
MergeLoop(qubit_groups, k, merged_groups) ==
    IF k > Len(qubit_groups) THEN merged_groups
    ELSE LET group == qubit_groups[k]
             overlapping == {i \in 1..Len(merged_groups) :
                                group \cap merged_groups[i] # {}}
         IN IF overlapping # {}
            THEN LET first == SetMin(overlapping)
                     joined == group \cup UNION {merged_groups[i] : i \in overlapping}
                 IN MergeLoop(qubit_groups, k + 1,
                        DeleteAt([merged_groups EXCEPT ![first] = joined],
                                 overlapping \ {first}, 1))
            ELSE MergeLoop(qubit_groups, k + 1, Append(merged_groups, group))

\* A connectivity test with no case for an empty layer.
BridgesOnly(operation, current_layer) ==
    LET qubit_groups == [i \in 1..Len(current_layer) |->
                            Range(current_layer[i].qubits)]
        merged_groups == MergeLoop(qubit_groups, 1, <<>>)
    IN Cardinality({i \in 1..Len(merged_groups) :
                       Range(operation.qubits) \cap merged_groups[i] # {}}) > 1

_breaks_connectivity(operation, current_layer) ==
    IF current_layer = <<>> THEN TRUE
    ELSE LET qubit_groups == [i \in 1..Len(current_layer) |->
                                 Range(current_layer[i].qubits)]
             merged_groups == MergeLoop(qubit_groups, 1, <<>>)
             op_qubits == Range(operation.qubits)
             connected_groups == {i \in 1..Len(merged_groups) :
                                     op_qubits \cap merged_groups[i] # {}}
         IN Cardinality(connected_groups) > 1

\* sorted(items, key = contribution, reverse = True): stable, an item goes
\* behind every item whose contribution is not smaller.
RECURSIVE SortLoop(_, _, _)
SortLoop(items, k, sorted_ops) ==
    IF k > Len(items) THEN sorted_ops
    ELSE LET item == items[k]
             p == Cardinality({i \in 1..Len(sorted_ops) :
                                  ~FracLess(sorted_ops[i][2], item[2])})
         IN SortLoop(items, k + 1,
                SubSeq(sorted_ops, 1, p) \o <<item>>
                    \o SubSeq(sorted_ops, p + 1, Len(sorted_ops)))

\* The same items in the opposite order: ascending contribution.
SortedAscending(items) ==
    LET sorted_ops == SortLoop(items, 1, <<>>)
    IN [i \in 1..Len(sorted_ops) |-> sorted_ops[Len(sorted_ops) + 1 - i]]

SortedByContribution(items) == SortLoop(items, 1, <<>>)

\* An acceptance test that passes the first operation it sees and no other.
KeepsFirstOnly(contribution, operation, filtered_layer, thr) ==
    filtered_layer = <<>>

\* An acceptance test with the comparison turned round.
KeepsBelow(contribution, operation, filtered_layer, thr) ==
    IF FracLess(contribution, thr) THEN TRUE
    ELSE _breaks_connectivity(operation, filtered_layer)

\* Whether _filter_layer appends an operation of this contribution.
Keeps(contribution, operation, filtered_layer, thr) ==
    IF FracGreater(contribution, thr) THEN TRUE
    ELSE _breaks_connectivity(operation, filtered_layer)

\* The loop of _filter_layer over sorted_ops from position k on.
RECURSIVE FilterLoop(_, _, _, _, _)
FilterLoop(layer, sorted_ops, k, filtered_layer, thr) ==
    IF k > Len(sorted_ops) THEN filtered_layer
    ELSE LET idx == sorted_ops[k][1]
             contribution == sorted_ops[k][2]
         IN FilterLoop(layer, sorted_ops, k + 1,
                IF Keeps(contribution, layer[idx], filtered_layer, thr)
                THEN Append(filtered_layer, layer[idx])
                ELSE filtered_layer,
                thr)

_filter_layer(layer, thr) ==
    IF Len(layer) <= 1 THEN layer
    ELSE LET operation_contributions ==
                 [i \in 1..Len(layer) |->
                     <<i, _calculate_operation_contribution(layer[i], layer)>>]
             sorted_ops == SortedByContribution(operation_contributions)
         IN FilterLoop(layer, sorted_ops, 1, <<>>, thr)

RECURSIVE FilteringLoop(_, _, _, _)
FilteringLoop(layers, k, filtered_layers, thr) ==
    IF k > Len(layers) THEN filtered_layers
    ELSE LET filtered_layer == _filter_layer(layers[k], thr)
         IN FilteringLoop(layers, k + 1,
                IF filtered_layer # <<>>
                THEN Append(filtered_layers, filtered_layer)
                ELSE filtered_layers,
                thr)

_apply_recursive_filtering(hier, thr) ==
    [hier EXCEPT !.layers = FilteringLoop(hier.layers, 1, <<>>, thr)]

\* The operations of the layers, the last layer first.
RECURSIVE LayersDataReversed(_, _)
LayersDataReversed(layers, k) ==
    IF k > Len(layers) THEN <<>>
    ELSE LayersDataReversed(layers, k + 1)
         \o [i \in 1..Len(layers[k]) |->
                [operation |-> layers[k][i].gate,
                 qubits |-> layers[k][i].qubits, clbits |-> <<>>]]

\* The operations of the layers, layer after layer, appended with no clbits.
RECURSIVE LayersData(_, _)
LayersData(layers, k) ==
    IF k > Len(layers) THEN <<>>
    ELSE [i \in 1..Len(layers[k]) |->
             [operation |-> layers[k][i].gate, qubits |-> layers[k][i].qubits,
              clbits |-> <<>>]]
         \o LayersData(layers, k + 1)

_reconstruct_from_hierarchy(hier, num_qubits) ==
    QuantumCircuit(num_qubits, 0, LayersData(hier.layers, 1))

_apply_qhrf_optimization(circ, thr) ==
    LET hier == _build_hierarchy(circ)
        filtered_hier == _apply_recursive_filtering(hier, thr)
    IN _reconstruct_from_hierarchy(filtered_hier, circ.num_qubits)

(***************************************************************************)
(* IonQOptimizationPass                                                    *)
(***************************************************************************)

\* circuit.rx / ry / rz(angle, qubit) and circuit.append(gate, qubits, []).
Emit(name, params, qubits) == Instr(name, params, qubits, <<>>)

\* A rewrite with no last branch: a gate outside the table is dropped.
RewrittenOrDropped(inst) ==
    LET gate_name == inst.operation.name
        qubits == QubitIndices(inst)
    IN CASE gate_name = "h" ->
              <<Emit("ry", <<Pi \div 2>>, <<qubits[1]>>),
                Emit("rx", <<Pi>>, <<qubits[1]>>)>>
         [] gate_name = "x" -> <<Emit("rx", <<Pi>>, <<qubits[1]>>)>>
         [] gate_name = "y" -> <<Emit("ry", <<Pi>>, <<qubits[1]>>)>>
         [] gate_name = "z" -> <<Emit("rz", <<Pi>>, <<qubits[1]>>)>>
         [] gate_name = "cx" ->
              <<Emit("rx", <<-(Pi \div 2)>>, <<qubits[1]>>),
                Emit("rx", <<-(Pi \div 2)>>, <<qubits[2]>>),
                Emit("rxx", <<Pi \div 4>>, <<qubits[1], qubits[2]>>)>>
         [] gate_name \in {"rx", "ry", "rz"} ->
              <<Emit(gate_name, inst.operation.params, qubits)>>
         [] OTHER -> <<>>

\* What _optimize_gate_set appends for one instruction.
Rewritten(inst) ==
    LET gate_name == inst.operation.name
        qubits == QubitIndices(inst)
    IN CASE gate_name = "h" ->
              <<Emit("ry", <<Pi \div 2>>, <<qubits[1]>>),
                Emit("rx", <<Pi>>, <<qubits[1]>>)>>
         [] gate_name = "x" -> <<Emit("rx", <<Pi>>, <<qubits[1]>>)>>
         [] gate_name = "y" -> <<Emit("ry", <<Pi>>, <<qubits[1]>>)>>
         [] gate_name = "z" -> <<Emit("rz", <<Pi>>, <<qubits[1]>>)>>
         [] gate_name = "cx" ->
              LET control == qubits[1]
                  target == qubits[2]
              IN <<Emit("rx", <<-(Pi \div 2)>>, <<control>>),
                   Emit("rx", <<-(Pi \div 2)>>, <<target>>),
                   Emit("rxx", <<Pi \div 4>>, <<control, target>>)>>
         [] gate_name \in {"rx", "ry", "rz", "rxx"} ->
              <<Emit(gate_name, inst.operation.params, qubits)>>
         [] OTHER -> <<Emit(gate_name, inst.operation.params, qubits)>>

\* A loop that puts each image in front of the images so far.
RECURSIVE GateSetLoopBackwards(_, _)
GateSetLoopBackwards(data, k) ==
    IF k > Len(data) THEN <<>>
    ELSE GateSetLoopBackwards(data, k + 1) \o Rewritten(data[k])

RECURSIVE GateSetLoop(_, _)
GateSetLoop(data, k) ==
    IF k > Len(data) THEN <<>>
    ELSE Rewritten(data[k]) \o GateSetLoop(data, k + 1)

\* A rewrite into a circuit constructed with no qubit count.
GateSetOnNoQubits(circ) == QuantumCircuit(0, 0, GateSetLoop(circ.data, 1))

_optimize_gate_set(circ) ==
    QuantumCircuit(circ.num_qubits, 0, GateSetLoop(circ.data, 1))

\* The total of the angles of one axis among (gate_name, angle) tuples.
RECURSIVE AxisTotal(_, _, _)
AxisTotal(rotations, axis, k) ==
    IF k > Len(rotations) THEN 0
    ELSE (IF rotations[k][1] = axis THEN rotations[k][2] ELSE 0)
         + AxisTotal(rotations, axis, k + 1)

\* A cut that looks at the sign of the total instead of its magnitude.
Positive(axis, total) == IF total > 0 THEN <<<<axis, total>>>> ELSE <<>>

\* `if abs(total) > 1e-10: optimized.append((axis, total))`; a total is a
\* whole number of angle units, so it passes the cut iff it is not zero.
NonZero(axis, total) == IF Abs(total) > 0 THEN <<<<axis, total>>>> ELSE <<>>

_optimize_rotation_sequence(rotations) ==
    LET rx_total == AxisTotal(rotations, "rx", 1)
        ry_total == AxisTotal(rotations, "ry", 1)
        rz_total == AxisTotal(rotations, "rz", 1)
    IN NonZero("rx", rx_total) \o NonZero("ry", ry_total)
          \o NonZero("rz", rz_total)

\* rotation_sequences is a defaultdict(list): here the sequence of its items
\* [q, rots] in insertion order, which is the order its keys are iterated in.
HasKey(rotation_sequences, q_idx) ==
    \E i \in 1..Len(rotation_sequences) : rotation_sequences[i].q = q_idx

\* rotation_sequences[qubit_idx].append(rotation)
Pending(rotation_sequences, qubit_idx, rotation) ==
    IF HasKey(rotation_sequences, qubit_idx)
    THEN [i \in 1..Len(rotation_sequences) |->
             IF rotation_sequences[i].q = qubit_idx
             THEN [rotation_sequences[i] EXCEPT !.rots = Append(@, rotation)]
             ELSE rotation_sequences[i]]
    ELSE Append(rotation_sequences, [q |-> qubit_idx, rots |-> <<rotation>>])

\* The calls made with qubit 0 in place of the qubit of the rotations.
EmitRotationsOnQubit0(optimized_rotations, q_idx) ==
    [i \in 1..Len(optimized_rotations) |->
        Emit(optimized_rotations[i][1], <<optimized_rotations[i][2]>>, <<0>>)]

\* The rx / ry / rz calls for the optimized rotations of one qubit.
EmitRotations(optimized_rotations, q_idx) ==
    [i \in 1..Len(optimized_rotations) |->
        Emit(optimized_rotations[i][1], <<optimized_rotations[i][2]>>,
             <<q_idx>>)]

\* `for q_idx in rotation_sequences: ...`: what a flush appends.
RECURSIVE Flush(_, _)
Flush(rotation_sequences, i) ==
    IF i > Len(rotation_sequences) THEN <<>>
    ELSE (IF rotation_sequences[i].rots # <<>>
          THEN EmitRotations(
                   _optimize_rotation_sequence(rotation_sequences[i].rots),
                   rotation_sequences[i].q)
          ELSE <<>>)
         \o Flush(rotation_sequences, i + 1)

\* A flush that leaves the pending rotations in place.
NotCleared(rotation_sequences) == rotation_sequences

\* rotation_sequences after a flush.
Cleared(rotation_sequences) == <<>>

IsRotation(inst) ==
    Len(inst.qubits) = 1 /\ inst.operation.name \in {"rx", "ry", "rz"}

\* The loop of _optimize_rotations from data[k] on, and the final flush.
RECURSIVE RotationsLoop(_, _, _)
RotationsLoop(data, k, rotation_sequences) ==
    IF k > Len(data) THEN Flush(rotation_sequences, 1)
    ELSE LET inst == data[k]
         IN IF IsRotation(inst)
            THEN RotationsLoop(data, k + 1,
                     Pending(rotation_sequences, inst.qubits[1],
                             <<inst.operation.name, inst.operation.params[1]>>))
            ELSE Flush(rotation_sequences, 1)
                 \o <<Emit(inst.operation.name, inst.operation.params,
                           QubitIndices(inst))>>
                 \o RotationsLoop(data, k + 1, Cleared(rotation_sequences))

_optimize_rotations(circ) ==
    QuantumCircuit(circ.num_qubits, 0, RotationsLoop(circ.data, 1, <<>>))

_optimize_connectivity(circ) == circ

_apply_qiskit_optimization(circ) ==
    _optimize_connectivity(_optimize_rotations(_optimize_gate_set(circ)))

(***************************************************************************)
(* The host: it constructs a pass, builds a circuit and runs the pass.     *)
(***************************************************************************)

\* Gates placed on every qubit of Q.
OnQubits(gates, Q) ==
    {Instr(g.name, g.params, <<q>>, <<>>) : g \in gates, q \in Q}

\* The instructions the host draws from when it exercises SeqHTPass.
SeqHTInstrs ==
    OnQubits({Gate("rx", <<1>>), Gate("rx", <<-1>>), Gate("ry", <<4>>),
              Gate("rz", <<1>>), Gate("h", <<>>), Gate("u3", <<4, 1, 1>>)},
             {0})
    \cup OnQubits({Gate("rx", <<4>>), Gate("sx", <<>>)}, {1})
    \cup {Instr("cx", <<>>, <<0, 1>>, <<>>),
          Instr("measure", <<>>, <<0>>, <<0>>)}

\* ... SeqHTPass on the operations it must leave alone: other gates, gates
\* on two qubits, and instructions that carry a clbit, one of them with the
\* name of a rotation.
FrameInstrs ==
    OnQubits({Gate("rx", <<1>>), Gate("ry", <<4>>), Gate("h", <<>>)}, {0})
    \cup OnQubits({Gate("rx", <<4>>), Gate("sx", <<>>)}, {1})
    \cup {Instr("cx", <<>>, <<0, 1>>, <<>>),
          Instr("measure", <<>>, <<0>>, <<0>>),
          Instr("rx", <<1>>, <<0>>, <<0>>)}

\* ... QHRFPass.
QHRFInstrs ==
    OnQubits({Gate("h", <<>>)}, {0})
    \cup OnQubits({Gate("rx", <<0>>), Gate("rx", <<2>>)}, {1})
    \cup OnQubits({Gate("ry", <<4>>), Gate("x", <<>>)}, {2})
    \cup {Instr("cx", <<>>, <<0, 1>>, <<>>), Instr("cx", <<>>, <<1, 2>>, <<>>),
          Instr("global_phase", <<1>>, <<>>, <<>>)}

\* ... IonQOptimizationPass.
IonQInstrs ==
    OnQubits({Gate("rx", <<2>>), Gate("rx", <<1>>), Gate("rx", <<-2>>),
              Gate("ry", <<1>>), Gate("h", <<>>)}, {0})
    \cup OnQubits({Gate("rz", <<4>>), Gate("rx", <<1>>), Gate("x", <<>>)}, {1})
    \cup {Instr("cx", <<>>, <<0, 1>>, <<>>), Instr("cz", <<>>, <<0, 1>>, <<>>)}

\* ... the rewrite table of IonQOptimizationPass: every gate it names, and
\* gates it has no rewrite for.
TranslatorInstrs ==
    OnQubits({Gate("h", <<>>), Gate("y", <<>>), Gate("rx", <<2>>),
              Gate("rz", <<4>>), Gate("sx", <<>>)}, {0})
    \cup OnQubits({Gate("x", <<>>), Gate("z", <<>>), Gate("ry", <<1>>),
                   Gate("t", <<>>)}, {1})
    \cup {Instr("cx", <<>>, <<0, 1>>, <<>>),
          Instr("rxx", <<2>>, <<0, 1>>, <<>>)}

\* ... all three passes.
CoreInstrs ==
    OnQubits({Gate("h", <<>>), Gate("rx", <<1>>)}, {0})
    \cup OnQubits({Gate("rz", <<4>>)}, {1})
    \cup {Instr("cx", <<>>, <<0, 1>>, <<>>)}

SeqHTThresholds == {0, 2}

MaxOrders == {0, 3}

\* redundancy_threshold values: 0, the default 0.01, 0.5, 0.9 and 2.
QHRFThresholds == {<<0, 1>>, <<1, 100>>, <<1, 2>>, <<9, 10>>, <<2, 1>>}

\* Every qubit and clbit index of the instruction is in range for the circuit.
Fits(inst, circ) ==
    /\ \A i \in 1..Len(inst.qubits) : inst.qubits[i] < circ.num_qubits
    /\ \A i \in 1..Len(inst.clbits) : inst.clbits[i] < circ.num_clbits

NoCircuit == QuantumCircuit(0, 0, <<>>)

NoHierarchy == [qubits |-> 0, layers |-> <<>>]

\* The state after the pass and an empty circuit are constructed.
InitWith(NQ, NC, TT, MO, RT) ==
    /\ circuit \in {QuantumCircuit(nq, nc, <<>>) : nq \in NQ, nc \in NC}
    /\ optimized_circuit = NoCircuit
    /\ pass_run = "none"
    /\ hierarchy = NoHierarchy
    /\ filtered_hierarchy = NoHierarchy
    /\ truncation_threshold \in TT
    /\ max_order \in MO
    /\ redundancy_threshold \in RT

\* The host appends one instruction to the circuit it is building.
AddOp(instrs) ==
    /\ pass_run = "none"
    /\ Len(circuit.data) < MaxOps
    /\ \E inst \in instrs :
          /\ Fits(inst, circuit)
          /\ circuit' = [circuit EXCEPT !.data = Append(@, inst)]
    /\ UNCHANGED <<optimized_circuit, pass_run, config, hierarchy,
                   filtered_hierarchy>>

\* SeqHTPass.run
SeqHTRun ==
    /\ pass_run = "none"
    /\ optimized_circuit' =
           _apply_seqht_optimization(circuit, truncation_threshold, max_order)
    /\ pass_run' = "seqht"
    /\ UNCHANGED <<circuit, config, hierarchy, filtered_hierarchy>>

\* QHRFPass.run, stage by stage (_apply_qhrf_optimization): the hierarchy
\* is built, filtered, and the circuit reconstructed from it.
QHRFBuild ==
    /\ pass_run = "none"
    /\ hierarchy' = _build_hierarchy(circuit)
    /\ pass_run' = "qhrf_built"
    /\ UNCHANGED <<circuit, optimized_circuit, config, filtered_hierarchy>>

QHRFFilter ==
    /\ pass_run = "qhrf_built"
    /\ filtered_hierarchy' =
           _apply_recursive_filtering(hierarchy, redundancy_threshold)
    /\ pass_run' = "qhrf_filtered"
    /\ UNCHANGED <<circuit, optimized_circuit, config, hierarchy>>

QHRFReconstruct ==
    /\ pass_run = "qhrf_filtered"
    /\ optimized_circuit' =
           _reconstruct_from_hierarchy(filtered_hierarchy, circuit.num_qubits)
    /\ pass_run' = "qhrf"
    /\ UNCHANGED <<circuit, config, hierarchy, filtered_hierarchy>>

QHRFRun == QHRFBuild \/ QHRFFilter \/ QHRFReconstruct

\* IonQOptimizationPass.run, stage by stage: the gate-set rewrite of a copy
\* of the circuit, the rotation fusion, the connectivity stage.
IonQGateSet ==
    /\ pass_run = "none"
    /\ optimized_circuit' = _optimize_gate_set(circuit)
    /\ pass_run' = "ionq_gate_set"
    /\ UNCHANGED <<circuit, config, hierarchy, filtered_hierarchy>>

IonQRotations ==
    /\ pass_run = "ionq_gate_set"
    /\ optimized_circuit' = _optimize_rotations(optimized_circuit)
    /\ pass_run' = "ionq_rotations"
    /\ UNCHANGED <<circuit, config, hierarchy, filtered_hierarchy>>

IonQConnectivity ==
    /\ pass_run = "ionq_rotations"
    /\ optimized_circuit' = _optimize_connectivity(optimized_circuit)
    /\ pass_run' = "ionq"
    /\ UNCHANGED <<circuit, config, hierarchy, filtered_hierarchy>>

IonQRun == IonQGateSet \/ IonQRotations \/ IonQConnectivity

Init == InitWith({1, 2}, {0, 1}, {2}, {3}, {<<1, 100>>})

Next == AddOp(CoreInstrs) \/ SeqHTRun \/ QHRFRun \/ IonQRun

Spec == Init /\ [][Next]_vars

InitSeqHT == InitWith({2}, {1}, SeqHTThresholds, MaxOrders, {<<1, 100>>})

NextSeqHT == AddOp(SeqHTInstrs) \/ SeqHTRun

SpecSeqHT == InitSeqHT /\ [][NextSeqHT]_vars

InitQHRF == InitWith({3}, {0}, {0}, {3}, QHRFThresholds)

NextQHRF == AddOp(QHRFInstrs) \/ QHRFRun

SpecQHRF == InitQHRF /\ [][NextQHRF]_vars

InitIonQ == InitWith({2}, {0}, {0}, {3}, {<<1, 100>>})

NextIonQ == AddOp(IonQInstrs) \/ IonQRun

SpecIonQ == InitIonQ /\ [][NextIonQ]_vars

InitTranslator == InitWith({2}, {0}, {0}, {3}, {<<1, 100>>})

NextTranslator == AddOp(TranslatorInstrs) \/ IonQRun

SpecTranslator == InitTranslator /\ [][NextTranslator]_vars

InitFrame == InitWith({2}, {1}, SeqHTThresholds, {3}, {<<1, 100>>})

NextFrame == AddOp(FrameInstrs) \/ SeqHTRun

SpecFrame == InitFrame /\ [][NextFrame]_vars

(***************************************************************************)
(* Properties                                                              *)
(***************************************************************************)

Qubits(circ) == 0..(circ.num_qubits - 1)

\* The single-qubit instructions with a recognised name on qubit q, in order.
RecognizedOn(circ, q) ==
    LET on(inst) == /\ Len(inst.qubits) = 1
                    /\ inst.qubits[1] = q
                    /\ inst.operation.name \in RecognizedNames
    IN SelectSeq(circ.data, on)

\* What a gate adds to an axis: rx to X, ry and the theta of u3 to Y, rz and
\* the phi and lambda of u3 to Z.
AxisAngle(gate, axis) ==
    CASE gate.name = axis -> gate.params[1]
      [] gate.name = "u3" /\ axis = "ry" -> gate.params[1]
      [] gate.name = "u3" /\ axis = "rz" -> gate.params[2] + gate.params[3]
      [] OTHER -> 0

RECURSIVE SummedAngle(_, _)
SummedAngle(instrs, axis) ==
    IF instrs = <<>> THEN 0
    ELSE AxisAngle(Head(instrs).operation, axis)
         + SummedAngle(Tail(instrs), axis)

\* One rotation of the axis on q when the summed angle is above thr.
AxisRotation(instrs, axis, q, thr) ==
    IF Abs(SummedAngle(instrs, axis)) > thr
    THEN <<Instr(axis, <<SummedAngle(instrs, axis)>>, <<q>>, <<>>)>>
    ELSE <<>>

\* C1: a finished pass returns a circuit with the num_qubits and the
\* num_clbits of its input circuit.
CountsPreserved ==
    pass_run \in {"seqht", "qhrf", "ionq"} =>
        /\ optimized_circuit.num_qubits = circuit.num_qubits
        /\ optimized_circuit.num_clbits = circuit.num_clbits

\* C2: after the truncator ran, a qubit that had 2 or more recognised
\* single-qubit operations in the input has at most 3 of them in the output.
TruncatorBoundedOutput ==
    pass_run = "seqht" =>
        \A q \in Qubits(circuit) :
            Len(RecognizedOn(circuit, q)) >= 2 =>
                Len(RecognizedOn(optimized_circuit, q)) <= 3

\* C3: after the truncator ran, the recognised operations on a qubit that had
\* 2 or more of them are exactly one rotation per axis whose summed angle is
\* above the threshold, with that sum, in the order rx, ry, rz.
TruncatorContent ==
    pass_run = "seqht" =>
        \A q \in Qubits(circuit) :
            LET run == RecognizedOn(circuit, q)
            IN Len(run) >= 2 =>
                RecognizedOn(optimized_circuit, q) =
                    AxisRotation(run, "rx", q, truncation_threshold)
                    \o AxisRotation(run, "ry", q, truncation_threshold)
                    \o AxisRotation(run, "rz", q, truncation_threshold)

\* C4: after the truncator ran, a qubit that had 2 or more recognised
\* operations whose summed angle is below the threshold on every axis has no
\* recognised operation left.
TruncatorCollapse ==
    pass_run = "seqht" =>
        \A q \in Qubits(circuit) :
            LET run == RecognizedOn(circuit, q)
            IN (/\ Len(run) >= 2
                /\ \A axis \in {"rx", "ry", "rz"} :
                       Abs(SummedAngle(run, axis)) < truncation_threshold)
               => RecognizedOn(optimized_circuit, q) = <<>>

\* The layer of the built hierarchy an entry of a filtered layer came from.
OriginalLayer(entry) == hierarchy.layers[(entry.index \div 100) + 1]

Score(entry) == _calculate_operation_contribution(entry, OriginalLayer(entry))

\* The number of connected components of the accepted operations that the
\* entry's qubits intersect.
ComponentsTouched(entry, accepted) ==
    LET groups == MergeLoop([i \in 1..Len(accepted) |->
                                Range(accepted[i].qubits)], 1, <<>>)
    IN Cardinality({i \in 1..Len(groups) :
                       Range(entry.qubits) \cap groups[i] # {}})

Filtered == pass_run \in {"qhrf_filtered", "qhrf"}

\* C6: after the filter ran, every operation of a filtered layer has a score
\* strictly above the threshold or intersects two or more connected
\* components of the operations accepted before it in its layer.
FilterRemovalRule ==
    Filtered =>
        \A j \in 1..Len(filtered_hierarchy.layers) :
            LET filtered_layer == filtered_hierarchy.layers[j]
            IN \A i \in 1..Len(filtered_layer) :
                \/ FracGreater(Score(filtered_layer[i]), redundancy_threshold)
                \/ ComponentsTouched(filtered_layer[i],
                                     SubSeq(filtered_layer, 1, i - 1)) >= 2

\* The operation sequence of a circuit: each gate with its qubits.
Operations(circ) ==
    [i \in 1..Len(circ.data) |->
        [operation |-> circ.data[i].operation, qubits |-> circ.data[i].qubits]]

ZeroThreshold == redundancy_threshold[1] = 0

\* C7 as stated: with redundancy_threshold = 0 the filter returns exactly the
\* operation sequence of the input circuit.
FilterPassThroughAtZero ==
    (pass_run = "qhrf" /\ ZeroThreshold) =>
        Operations(optimized_circuit) = Operations(circuit)

\* A zero-angle rx / ry / rz: the only operations whose score is 0.
ZeroAngle(gate) ==
    /\ gate.name \in {"rx", "ry", "rz"}
    /\ Len(gate.params) > 0
    /\ gate.params[1] = 0

\* The filtered layer that came from layer k of the built hierarchy, empty
\* when none did.
KeptOf(k) ==
    LET from == {j \in 1..Len(filtered_hierarchy.layers) :
                    filtered_hierarchy.layers[j][1].index \div 100 = k - 1}
    IN IF from = {} THEN <<>>
       ELSE filtered_hierarchy.layers[CHOOSE j \in from : TRUE]

\* The scores of the layer do not increase in program order.
ScoresNonIncreasing(layer) ==
    \A i, j \in 1..Len(layer) :
        i < j => ~FracLess(_calculate_operation_contribution(layer[i], layer),
                           _calculate_operation_contribution(layer[j], layer))

NoZeroAngle == \A i \in 1..Len(circuit.data) : ~ZeroAngle(circuit.data[i].operation)

\* C7, amended: with redundancy_threshold = 0 the filter keeps every
\* operation that is not a zero-angle rotation and invents none, and returns
\* each layer by descending score, equal scores in program order; so it
\* returns exactly the input's operation sequence when the input has no
\* zero-angle rotation and every layer's scores do not increase in program
\* order.
FilterAtZeroKeepsScored ==
    (pass_run = "qhrf" /\ ZeroThreshold) =>
        /\ \A k \in 1..Len(hierarchy.layers) :
              LET layer == hierarchy.layers[k]
                  kept == KeptOf(k)
              IN /\ Range(kept) \subseteq Range(layer)
                 /\ \A e \in Range(layer) :
                        ~ZeroAngle(e.gate) => e \in Range(kept)
                 /\ \A i, j \in 1..Len(kept) :
                        i < j =>
                            /\ ~FracLess(Score(kept[i]), Score(kept[j]))
                            /\ ~FracLess(Score(kept[j]), Score(kept[i])) =>
                                   kept[i].index < kept[j].index
        /\ Len(optimized_circuit.data) <= Len(circuit.data)
        /\ (/\ NoZeroAngle
            /\ \A k \in 1..Len(hierarchy.layers) :
                   ScoresNonIncreasing(hierarchy.layers[k]))
           => Operations(optimized_circuit) = Operations(circuit)

\* A run at threshold 0 over a circuit with a layer of several operations
\* of different scores, already in descending order, that came back as it
\* went in.
FilterAtZeroReached ==
    /\ pass_run = "qhrf"
    /\ ZeroThreshold
    /\ NoZeroAngle
    /\ Len(circuit.data) >= 3
    /\ \E k \in 1..Len(hierarchy.layers) :
          LET layer == hierarchy.layers[k]
          IN /\ Len(layer) >= 2
             /\ ScoresNonIncreasing(layer)
             /\ FracLess(_calculate_operation_contribution(layer[2], layer),
                         _calculate_operation_contribution(layer[1], layer))
    /\ \A k \in 1..Len(hierarchy.layers) :
          ScoresNonIncreasing(hierarchy.layers[k])
    /\ Operations(optimized_circuit) = Operations(circuit)

\* C8: for thresholds t1 < t2 the filter run at t2 returns at most as many
\* operations as the run at t1 on the same circuit.
FilterThresholdMonotone ==
    pass_run = "qhrf" =>
        \A t2 \in QHRFThresholds :
            FracLess(redundancy_threshold, t2) =>
                Len(_apply_qhrf_optimization(circuit, t2).data)
                    <= Len(optimized_circuit.data)

\* A finished run whose count a higher threshold strictly lowers, while the
\* highest threshold still leaves operations.
FilterThresholdReached ==
    /\ pass_run = "qhrf"
    /\ \E t2 \in QHRFThresholds :
          /\ FracLess(redundancy_threshold, t2)
          /\ Len(_apply_qhrf_optimization(circuit, t2).data)
                 < Len(optimized_circuit.data)
          /\ Len(_apply_qhrf_optimization(circuit, t2).data) > 0

\* C9: the rotation-fusion stage applied to its own output returns that
\* output, operation for operation and in the same order.
FusionIdempotent ==
    /\ pass_run = "ionq_rotations" =>
           _optimize_rotations(optimized_circuit) = optimized_circuit
    /\ _optimize_rotations(_optimize_rotations(circuit))
           = _optimize_rotations(circuit)

\* The fusion stage ran, changed its input, and left rotations on both sides
\* of another operation.
FusionIdempotentReached ==
    /\ pass_run = "ionq_rotations"
    /\ optimized_circuit # _optimize_gate_set(circuit)
    /\ \E i, j, k \in 1..Len(optimized_circuit.data) :
          /\ i < j /\ j < k
          /\ IsRotation(optimized_circuit.data[i])
          /\ ~IsRotation(optimized_circuit.data[j])
          /\ IsRotation(optimized_circuit.data[k])

\* The rotations of segment s: those behind the first s operations that are
\* not single-qubit rotations and before the next one.
RECURSIVE SegmentOf(_, _)
SegmentOf(data, s) ==
    IF data = <<>> THEN <<>>
    ELSE IF IsRotation(Head(data))
         THEN (IF s = 0 THEN <<Head(data)>> ELSE <<>>)
              \o SegmentOf(Tail(data), s)
         ELSE IF s = 0 THEN <<>> ELSE SegmentOf(Tail(data), s - 1)

NotRotation(inst) == ~IsRotation(inst)

RotationsOn(instrs, q) ==
    LET on(inst) == inst.qubits[1] = q
    IN SelectSeq(instrs, on)

\* C10: the fusion stage keeps the operations that are not single-qubit
\* rotations, in order, and between two of them (and at the ends) leaves on
\* each qubit exactly one rotation per axis whose pending angles sum to
\* non-zero, carrying that sum, in the order rx, ry, rz.
FusionFlushResult ==
    pass_run = "ionq_rotations" =>
        LET S == _optimize_gate_set(circuit).data
            fused == optimized_circuit.data
        IN /\ SelectSeq(fused, NotRotation) = SelectSeq(S, NotRotation)
           /\ \A s \in 0..Len(S) : \A q \in Qubits(circuit) :
                 LET pending == RotationsOn(SegmentOf(S, s), q)
                 IN RotationsOn(SegmentOf(fused, s), q) =
                        AxisRotation(pending, "rx", q, 0)
                        \o AxisRotation(pending, "ry", q, 0)
                        \o AxisRotation(pending, "rz", q, 0)

\* rx(pi/4), ry(pi/8), rx(pi/8) before a cz came out as rx(3 pi/8),
\* ry(pi/8), cz: the two rx were summed across the ry, no rz was emitted.
FusionFlushReached ==
    /\ pass_run = "ionq_rotations"
    /\ circuit.data = <<Instr("rx", <<2>>, <<0>>, <<>>),
                        Instr("ry", <<1>>, <<0>>, <<>>),
                        Instr("rx", <<1>>, <<0>>, <<>>),
                        Instr("cz", <<>>, <<0, 1>>, <<>>)>>
    /\ optimized_circuit.data = <<Instr("rx", <<3>>, <<0>>, <<>>),
                                  Instr("ry", <<1>>, <<0>>, <<>>),
                                  Instr("cz", <<>>, <<0, 1>>, <<>>)>>

ActsOn(inst, q) == \E i \in 1..Len(inst.qubits) : inst.qubits[i] = q

\* C11: in the output of the fusion stage, two rotations of one axis on one
\* qubit have between them an operation that is not a single-qubit rotation
\* and acts on that qubit.
FusionPerQubitRun ==
    pass_run = "ionq_rotations" =>
        LET fused == optimized_circuit.data
        IN \A i, j \in 1..Len(fused) :
              (/\ i < j
               /\ IsRotation(fused[i]) /\ IsRotation(fused[j])
               /\ fused[i].qubits = fused[j].qubits
               /\ fused[i].operation.name = fused[j].operation.name)
              => \E k \in (i + 1)..(j - 1) :
                     /\ ~IsRotation(fused[k])
                     /\ ActsOn(fused[k], fused[i].qubits[1])

\* C12: the whole pass applied to the 2-qubit circuit h(q0), cx(q0, q1)
\* returns exactly ry(pi/2) q0, rx(pi) q0, rx(-pi/2) q0, rx(-pi/2) q1,
\* rxx(pi/4) (q0, q1).
TranslatorScenario ==
    (/\ pass_run = "ionq"
     /\ circuit.num_qubits = 2
     /\ circuit.data = <<Instr("h", <<>>, <<0>>, <<>>),
                         Instr("cx", <<>>, <<0, 1>>, <<>>)>>)
    => optimized_circuit.data =
           <<Instr("ry", <<Pi \div 2>>, <<0>>, <<>>),
             Instr("rx", <<Pi>>, <<0>>, <<>>),
             Instr("rx", <<-(Pi \div 2)>>, <<0>>, <<>>),
             Instr("rx", <<-(Pi \div 2)>>, <<1>>, <<>>),
             Instr("rxx", <<Pi \div 4>>, <<0, 1>>, <<>>)>>

Rotation(name, angle, q) == Instr(name, <<angle>>, <<q>>, <<>>)

\* The instruction itself, appended with no clbits.
Unchanged(inst) == [inst EXCEPT !.clbits = <<>>]

\* The image of one operation under the rewrite table.
Image(inst) ==
    LET name == inst.operation.name
        q == inst.qubits
    IN CASE name = "h" -> <<Rotation("ry", Pi \div 2, q[1]),
                            Rotation("rx", Pi, q[1])>>
         [] name = "x" -> <<Rotation("rx", Pi, q[1])>>
         [] name = "y" -> <<Rotation("ry", Pi, q[1])>>
         [] name = "z" -> <<Rotation("rz", Pi, q[1])>>
         [] name = "cx" -> <<Rotation("rx", -(Pi \div 2), q[1]),
                             Rotation("rx", -(Pi \div 2), q[2]),
                             Instr("rxx", <<Pi \div 4>>, <<q[1], q[2]>>, <<>>)>>
         [] OTHER -> <<Unchanged(inst)>>

RECURSIVE Images(_)
Images(data) ==
    IF data = <<>> THEN <<>> ELSE Image(Head(data)) \o Images(Tail(data))

\* C13: the output of the rewrite stage is the concatenation, in input
\* order, of the images of the input operations under the table: h -> ry(pi/2),
\* rx(pi); x -> rx(pi); y -> ry(pi); z -> rz(pi); cx(c, t) -> rx(-pi/2) c,
\* rx(-pi/2) t, rxx(pi/4) (c, t); rx, ry, rz, rxx unchanged.
RewriteTable ==
    pass_run = "ionq_gate_set" =>
        optimized_circuit.data = Images(circuit.data)

HasGate(circ, name) ==
    \E i \in 1..Len(circ.data) : circ.data[i].operation.name = name

\* The rewrite stage ran on a circuit with an h, a cx and an rxx behind a
\* rotation.
RewriteTableReached ==
    /\ pass_run = "ionq_gate_set"
    /\ HasGate(circuit, "h") /\ HasGate(circuit, "cx")
    /\ HasGate(circuit, "rxx")
    /\ IsRotation(circuit.data[1])
    /\ Len(optimized_circuit.data) = 7

Supported == {"h", "x", "y", "z", "cx", "rx", "ry", "rz"}

Unsupported(inst) == inst.operation.name \notin Supported

NotRewritten(inst) == inst.operation.name \notin Supported \cup {"rxx"}

UnsupportedOrCx(inst) == Unsupported(inst) \/ inst.operation.name = "cx"

\* What an unsupported operation or a cx leaves behind the rotations.
Through(inst) ==
    IF inst.operation.name = "cx"
    THEN Instr("rxx", <<Pi \div 4>>, inst.qubits, <<>>)
    ELSE Unchanged(inst)

\* C14: the operations of the whole pass's output that are not single-qubit
\* rotations are, in order, the input's unsupported operations (name,
\* parameters and qubits unchanged) and the rxx images of its cx, each once;
\* so the operations no rewrite produces come out exactly as they went in.
TranslatorPassThrough ==
    pass_run = "ionq" =>
        LET passed == SelectSeq(circuit.data, UnsupportedOrCx)
        IN /\ SelectSeq(optimized_circuit.data, NotRotation) =
                  [i \in 1..Len(passed) |-> Through(passed[i])]
           /\ SelectSeq(optimized_circuit.data, NotRewritten) =
                  SelectSeq(circuit.data, NotRewritten)

\* The pass ran on a circuit with two different unsupported gates around a
\* rotation, and with an rxx.
TranslatorPassThroughReached ==
    /\ pass_run = "ionq"
    /\ HasGate(circuit, "rxx")
    /\ \E i, j, k \in 1..Len(circuit.data) :
          /\ i < j /\ j < k
          /\ circuit.data[i].operation.name = "t"
          /\ circuit.data[j].operation.name \in {"rx", "h"}
          /\ circuit.data[k].operation.name = "sx"
    /\ Len(SelectSeq(optimized_circuit.data, Unsupported)) = 3

Built == pass_run \in {"qhrf_built", "qhrf_filtered", "qhrf"}

\* The operations of the layers, one layer after the other.
RECURSIVE Flattened(_)
Flattened(layers) ==
    IF layers = <<>> THEN <<>>
    ELSE [i \in 1..Len(Head(layers)) |->
             [operation |-> Head(layers)[i].gate,
              qubits |-> Head(layers)[i].qubits]]
         \o Flattened(Tail(layers))

\* C15: the layers of the built hierarchy are all non-empty and, one after
\* the other, are the input's operation sequence.
LayerPartition ==
    Built =>
        /\ \A k \in 1..Len(hierarchy.layers) : hierarchy.layers[k] # <<>>
        /\ Flattened(hierarchy.layers) = Operations(circuit)

\* A hierarchy of several layers, one of them with several operations, was
\* built.
LayerPartitionReached ==
    /\ pass_run = "qhrf_built"
    /\ Len(hierarchy.layers) >= 2
    /\ \E k \in 1..Len(hierarchy.layers) : Len(hierarchy.layers[k]) >= 2
    /\ Len(circuit.data) = 4

\* C16: any two distinct operations of a layer of the built hierarchy have
\* disjoint qubit sets.
LayerDisjointness ==
    Built =>
        \A k \in 1..Len(hierarchy.layers) :
            \A i, j \in 1..Len(hierarchy.layers[k]) :
                i # j => Range(hierarchy.layers[k][i].qubits)
                             \cap Range(hierarchy.layers[k][j].qubits) = {}

\* A cx that shares a qubit with the operation before it started a new
\* layer, which it shares with an operation on the third qubit.
LayerDisjointnessReached ==
    /\ pass_run = "qhrf_built"
    /\ \E i \in 1..(Len(circuit.data) - 1) :
          /\ Len(circuit.data[i + 1].qubits) = 2
          /\ Range(circuit.data[i].qubits)
                 \cap Range(circuit.data[i + 1].qubits) # {}
    /\ \E k \in 2..Len(hierarchy.layers) :
          /\ Len(hierarchy.layers[k]) >= 2
          /\ Len(hierarchy.layers[k][1].qubits) = 2

\* C17: at threshold 0 every operation of the input whose score is not zero
\* is in the filter's output; an operation that was dropped has score zero.
FilterZeroRetention ==
    (Filtered /\ ZeroThreshold) =>
        \A k \in 1..Len(hierarchy.layers) :
            \A e \in Range(hierarchy.layers[k]) :
                e \notin Range(KeptOf(k)) =>
                    _calculate_operation_contribution(
                        e, hierarchy.layers[k])[1] = 0

\* At threshold 0 a layer lost a zero-score operation and kept one whose
\* score is below 1.
FilterZeroRetentionReached ==
    /\ pass_run = "qhrf_filtered"
    /\ ZeroThreshold
    /\ \E k \in 1..Len(hierarchy.layers) :
          /\ Len(KeptOf(k)) < Len(hierarchy.layers[k])
          /\ \E e \in Range(KeptOf(k)) : FracLess(Score(e), <<1, 1>>)

PlainOn(inst, q) ==
    /\ inst.qubits = <<q>>
    /\ inst.clbits = <<>>
    /\ inst.operation.name \in RecognizedNames

\* The qubits of the input with 2 or more such operations.
RewrittenQubits ==
    {q \in Qubits(circuit) :
        Cardinality({i \in 1..Len(circuit.data) :
                        PlainOn(circuit.data[i], q)}) >= 2}

\* Not a recognised single-qubit operation on a qubit being rewritten.
Frame(inst) == ~\E q \in RewrittenQubits : PlainOn(inst, q)

\* C18: the truncator's output holds the operations that are not recognised
\* single-qubit operations on a rewritten qubit unchanged and in their input
\* order.
TruncatorFrame ==
    pass_run = "seqht" =>
        SelectSeq(optimized_circuit.data, Frame)
            = SelectSeq(circuit.data, Frame)

OperationsOn(circ, q) ==
    LET on(inst) == ActsOn(inst, q)
    IN SelectSeq(circ.data, on)

Finished == pass_run \in {"seqht", "qhrf", "ionq"}

\* C21: a pass run on a circuit with no operations returns a circuit with no
\* operations and the same number of qubits.
EmptyCircuit ==
    (Finished /\ circuit.data = <<>>) =>
        /\ optimized_circuit.data = <<>>
        /\ optimized_circuit.num_qubits = circuit.num_qubits

\* The gate set pass ran on the empty circuit of 2 qubits and 1 clbit.
EmptyCircuitReached ==
    /\ pass_run = "ionq"
    /\ circuit = QuantumCircuit(2, 1, <<>>)
    /\ optimized_circuit.data = <<>>
    /\ optimized_circuit.num_qubits = 2

\* The replacement run the truncator reconstructs for qubit q.
ReplacementRun(q) ==
    _optimize_single_qubit_sequence(
        _extract_single_qubit_operations(circuit, q),
        truncation_threshold, max_order)

\* C22: for a qubit with 2 or more recognised operations the replacement run
\* has a rotation of an axis exactly when that axis's sum is not zero and its
\* magnitude is at least the threshold, a magnitude equal to the threshold
\* included.
TruncatorBoundary ==
    pass_run = "seqht" =>
        \A q \in Qubits(circuit) :
            LET run == RecognizedOn(circuit, q)
            IN Len(run) >= 2 =>
                \A axis \in {"rx", "ry", "rz"} :
                    (\E i \in 1..Len(ReplacementRun(q)) :
                         ReplacementRun(q)[i].type = axis)
                    <=> (/\ Abs(SummedAngle(run, axis)) >= truncation_threshold
                         /\ SummedAngle(run, axis) # 0)

\* The coefficient table of the run extracted for qubit q.
Coefficients(q) ==
    _compute_sequency_coefficients(
        _extract_single_qubit_operations(circuit, q), max_order)

\* C23: the order-0 coefficients of a qubit's run are X = the sum of its rx
\* angles, Y = the sum of its ry angles and u3 thetas, Z = the sum of its rz
\* angles and u3 phis and lambdas; the rows of higher order are zero; the
\* truncator's result is the same for every max_order.
TruncatorCoefficients ==
    pass_run = "seqht" =>
        /\ \A q \in Qubits(circuit) :
              LET run == RecognizedOn(circuit, q)
              IN /\ Coefficients(q)[0][0] = SummedAngle(run, "rx")
                 /\ Coefficients(q)[0][1] = SummedAngle(run, "ry")
                 /\ Coefficients(q)[0][2] = SummedAngle(run, "rz")
                 /\ \A o \in 1..max_order : \A a \in 0..2 :
                        Coefficients(q)[o][a] = 0
        /\ \A mo \in MaxOrders :
              optimized_circuit =
                  _apply_seqht_optimization(circuit, truncation_threshold, mo)

\* The truncator ran with max_order 3 on a run of q0 with a u3, an h and a
\* rotation, and rewrote it.
TruncatorCoefficientsReached ==
    /\ pass_run = "seqht"
    /\ max_order = 3
    /\ HasGate(QuantumCircuit(2, 1, RecognizedOn(circuit, 0)), "u3")
    /\ HasGate(QuantumCircuit(2, 1, RecognizedOn(circuit, 0)), "h")
    /\ HasGate(QuantumCircuit(2, 1, RecognizedOn(circuit, 0)), "rz")
    /\ Coefficients(0)[0][2] = 3
    /\ optimized_circuit # circuit

\* The base score of a gate, as a fraction of 40: 1 for h, x, y, z;
\* min(|angle| / pi, 1) for a rotation with an angle and 0.5 without; 1.5 for
\* cx, cz, swap; 0.8 for any other gate.
BaseScore40(gate) ==
    CASE gate.name \in {"h", "x", "y", "z"} -> 40
      [] gate.name \in {"rx", "ry", "rz"} ->
            IF gate.params = <<>> THEN 20
            ELSE IF Abs(gate.params[1]) >= Pi THEN 40
            ELSE 5 * Abs(gate.params[1])
      [] gate.name \in {"cx", "cz", "swap"} -> 60
      [] OTHER -> 32

\* The number of other operations of the layer with the qubit set and the
\* gate name of layer[i].
Duplicates(layer, i) ==
    Cardinality({j \in 1..Len(layer) :
                    /\ j # i
                    /\ Range(layer[j].qubits) = Range(layer[i].qubits)
                    /\ layer[j].gate.name = layer[i].gate.name})

\* C24: the score of an operation in its layer is its base score divided by
\* d + 1, d the number of other operations of the layer with the same qubit
\* set and gate name.
FilterDuplicatePenalty ==
    Built =>
        \A k \in 1..Len(hierarchy.layers) :
            LET layer == hierarchy.layers[k]
            IN \A i \in 1..Len(layer) :
                  LET score == _calculate_operation_contribution(layer[i], layer)
                  IN score[1] * 40 * (Duplicates(layer, i) + 1)
                         = BaseScore40(layer[i].gate) * score[2]

\* Two global_phase share a layer with an h: each scores 0.4, below the
\* threshold 0.5 that an unpenalised 0.8 passes, and both were dropped.
FilterDuplicatePenaltyReached ==
    /\ pass_run = "qhrf_filtered"
    /\ redundancy_threshold = <<1, 2>>
    /\ \E k \in 1..Len(hierarchy.layers) :
          LET layer == hierarchy.layers[k]
          IN /\ Len(layer) = 3
             /\ \E i \in 1..3 : Duplicates(layer, i) = 1
             /\ \E i \in 1..3 : layer[i].gate.name = "h"
             /\ Len(KeptOf(k)) = 1

LayerQubits(layer) == UNION {Range(layer[i].qubits) : i \in 1..Len(layer)}

\* C25: the first operation of every layer but the first shares a qubit with
\* an operation of the layer before it.
LayerGreediness ==
    Built =>
        \A k \in 2..Len(hierarchy.layers) :
            Range(hierarchy.layers[k][1].qubits)
                \cap LayerQubits(hierarchy.layers[k - 1]) # {}

\* Three layers were built, the middle one with several operations, one of
\* them on a qubit the first layer does not touch.
LayerGreedinessReached ==
    /\ pass_run = "qhrf_built"
    /\ Len(hierarchy.layers) = 3
    /\ Len(hierarchy.layers[2]) >= 2
    /\ LayerQubits(hierarchy.layers[2]) \ LayerQubits(hierarchy.layers[1]) # {}

AboveThreshold(layer) ==
    Cardinality({i \in 1..Len(layer) :
        FracLess(redundancy_threshold,
                 _calculate_operation_contribution(layer[i], layer))})

RECURSIVE IsSubsequence(_, _)
IsSubsequence(s, t) ==
    IF s = <<>> THEN TRUE
    ELSE IF t = <<>> THEN FALSE
    ELSE IF Head(s) = Head(t) THEN IsSubsequence(Tail(s), Tail(t))
    ELSE IsSubsequence(s, Tail(t))

\* The operations of the circuit that touch q, in order.
Touching(circ, q) ==
    LET on(op) == \E i \in 1..Len(op.qubits) : op.qubits[i] = q
    IN SelectSeq(Operations(circ), on)

\* C28: for every qubit the operations touching it in the filter's output
\* are a subsequence of the operations touching it in the input.
FilterPerQubitOrder ==
    pass_run = "qhrf" =>
        \A q \in Qubits(circuit) :
            IsSubsequence(Touching(optimized_circuit, q), Touching(circuit, q))

\* The filter dropped an operation and put two others in another order than
\* the input's, and a qubit still has two operations.
FilterPerQubitOrderReached ==
    /\ pass_run = "qhrf"
    /\ Len(optimized_circuit.data) < Len(circuit.data)
    /\ ~IsSubsequence(Operations(optimized_circuit), Operations(circuit))
    /\ \E q \in Qubits(circuit) : Len(Touching(optimized_circuit, q)) >= 2

\* C29: the filter applied to its own output, at the same threshold, returns
\* that output.
FilterIdempotent ==
    pass_run = "qhrf" =>
        _apply_qhrf_optimization(optimized_circuit, redundancy_threshold)
            = optimized_circuit

Translatable ==
    \A i \in 1..Len(circuit.data) :
        circuit.data[i].operation.name \in Supported \cup {"rxx"}

UsedQubits(circ) ==
    UNION {Range(circ.data[i].qubits) : i \in 1..Len(circ.data)}

\* C30: the whole pass, run on a circuit of h, x, y, z, cx, rx, ry, rz and
\* rxx only, returns operations named rx, ry, rz or rxx only, on qubits the
\* input's operations act on.
TranslatorNativeClosure ==
    (pass_run = "ionq" /\ Translatable) =>
        /\ \A i \in 1..Len(optimized_circuit.data) :
              optimized_circuit.data[i].operation.name
                  \in {"rx", "ry", "rz", "rxx"}
        /\ UsedQubits(optimized_circuit) \subseteq UsedQubits(circuit)

\* The pass ran on a circuit of an x, a z and a ry on q1 with nothing on q0,
\* and returned rotations of three axes.
TranslatorNativeClosureReached ==
    /\ pass_run = "ionq"
    /\ Translatable
    /\ UsedQubits(circuit) = {1}
    /\ HasGate(circuit, "x") /\ HasGate(circuit, "z")
    /\ Len(optimized_circuit.data) = 3

====
